---- MODULE Spec2Model ----
(***************************************************************************)
(* Model of lumberjack: the ProcessMetrics record, ProcessMetricsEncoder,  *)
(* MetricsLogger (setup_metrics, complete_metrics, log, log_error) and the *)
(* two ContextLogger context managers.                                     *)
(*                                                                         *)
(* A Python str is a sequence of tokens (TLA+ strings); field names are    *)
(* spelled character by character because the encoder works on their      *)
(* characters.  None is the one-token sequence <<"None">>, which no str of *)
(* the model equals; a list is a sequence of values, a dict a sequence of  *)
(* key/value pairs.                                                        *)
(***************************************************************************)
EXTENDS Integers, Sequences, FiniteSets, TLC

\* ------------------------------------------------------------------ bounds
NumThreads == 2
MaxBlocks == 2
MaxClock == 1
MaxCalls == 4
MaxErrors == 2

Threads == 1..NumThreads
\* MetricsLogger 1 is built by the caller and shared; logger 1 + t is the
\* instance that process_metrics.ContextLogger.__init__ built last for
\* thread t (the one of an earlier with-statement of t is garbage by then).
Shared == 1
own_logger(t) == 1 + t
Reporters == 1..(1 + NumThreads)

\* ------------------------------------------------------------ Python values
None == <<"None">>

Lowercase == <<"a","b","c","d","e","f","g","h","i","j","k","l","m",
               "n","o","p","q","r","s","t","u","v","w","x","y","z">>
Uppercase == <<"A","B","C","D","E","F","G","H","I","J","K","L","M",
               "N","O","P","Q","R","S","T","U","V","W","X","Y","Z">>

upper(c) == IF \E i \in 1..Len(Lowercase) : Lowercase[i] = c
            THEN Uppercase[CHOOSE i \in 1..Len(Lowercase) : Lowercase[i] = c]
            ELSE c

lower(c) == IF \E i \in 1..Len(Uppercase) : Uppercase[i] = c
            THEN Lowercase[CHOOSE i \in 1..Len(Uppercase) : Uppercase[i] = c]
            ELSE c

\* str.replace(old, new) for a one-character old; new is a str (maybe empty)
RECURSIVE replace(_, _, _)
replace(s, old, new) ==
    IF s = <<>> THEN <<>>
    ELSE (IF Head(s) = old THEN new ELSE <<Head(s)>>) \o replace(Tail(s), old, new)

\* str.split() : split on runs of blanks, no empty words
RECURSIVE splitFrom(_, _)
splitFrom(s, word) ==
    IF s = <<>> THEN (IF word = <<>> THEN <<>> ELSE <<word>>)
    ELSE IF Head(s) = " "
         THEN (IF word = <<>> THEN <<>> ELSE <<word>>) \o splitFrom(Tail(s), <<>>)
         ELSE splitFrom(Tail(s), Append(word, Head(s)))

split(s) == splitFrom(s, <<>>)

\* str.capitalize()
capitalize(w) ==
    IF w = <<>> THEN <<>>
    ELSE <<upper(Head(w))>> \o [i \in 1..(Len(w) - 1) |-> lower(w[i + 1])]

\* sep.join(words)
RECURSIVE join(_, _)
join(sep, words) ==
    IF words = <<>> THEN <<>>
    ELSE IF Len(words) = 1 THEN Head(words)
    ELSE Head(words) \o sep \o join(sep, Tail(words))

\* string.capwords(s) == " ".join(x.capitalize() for x in s.split())
capwords(s) ==
    LET ws == split(s) IN join(<<" ">>, [i \in 1..Len(ws) |-> capitalize(ws[i])])

\* ----------------------------------------------------------- configuration
\* os.getenv("app", "DEV"): the variable's value, "DEV" when it is unset
AppValues == {None, <<"PROD">>}
getenv(value, default) == IF value = None THEN default ELSE value

environment(app) == getenv(app, <<"DEV">>)
rule_id == <<"dcr-abc123">>
endpoint == <<"https://dce">>
stream_name == <<"Custom-MLOpsPipelineLogs_CL">>

\* the statuses callers complete a process with
CompleteStatuses == {<<"SUCCESS">>, <<"FAILURE">>}

\* datetime.utcnow().isoformat() at clock reading t
Digits == <<"0","1","2","3","4","5","6","7","8","9">>
isoformat(t) == <<"2024-01-01T00:00:0", Digits[t + 1]>>

\* ------------------------------------------------------------ ProcessMetrics
\* the dataclass's defaults
ProcessMetrics(app) ==
    [ time_generated    |-> None,
      process_name      |-> None,
      execution_id      |-> None,
      environment       |-> environment(app),
      status            |-> None,
      start_time        |-> None,
      end_time          |-> None,
      error_message     |-> <<>>,
      mlflow_url        |-> None,
      execution_details |-> <<>> ]

\* the dataclass's field names, in definition order, as characters
FieldNames ==
    << <<"t","i","m","e","_","g","e","n","e","r","a","t","e","d">>,
       <<"p","r","o","c","e","s","s","_","n","a","m","e">>,
       <<"e","x","e","c","u","t","i","o","n","_","i","d">>,
       <<"e","n","v","i","r","o","n","m","e","n","t">>,
       <<"s","t","a","t","u","s">>,
       <<"s","t","a","r","t","_","t","i","m","e">>,
       <<"e","n","d","_","t","i","m","e">>,
       <<"e","r","r","o","r","_","m","e","s","s","a","g","e">>,
       <<"m","l","f","l","o","w","_","u","r","l">>,
       <<"e","x","e","c","u","t","i","o","n","_","d","e","t","a","i","l","s">> >>

\* o.__dict__.values(), in the same order
dict_values(o) ==
    << o.time_generated, o.process_name, o.execution_id, o.environment, o.status,
       o.start_time, o.end_time, o.error_message, o.mlflow_url, o.execution_details >>

\* a key expression that capitalizes the name as one word
PascalKey_one_word(k) == replace(capitalize(replace(k, "_", <<" ">>)), " ", <<>>)

\* string.capwords(k.replace("_", " ")).replace(" ", "")
PascalKey(k) == replace(capwords(replace(k, "_", <<" ">>)), " ", <<>>)

\* the keys the encoder gives the fields
PascalKeys == [i \in 1..Len(FieldNames) |-> PascalKey(FieldNames[i])]

\* ProcessMetricsEncoder.default: snake_case keys to PascalCase, values as is
ProcessMetricsEncoder(o) ==
    LET values == dict_values(o)
    IN  [i \in 1..Len(FieldNames) |-> <<PascalKeys[i], values[i]>>]

\* json.loads(json.dumps(o, cls=ProcessMetricsEncoder)): the object that the
\* serialised key/value pairs read back as (a repeated key keeps its last value)
json_roundtrip(o) ==
    LET pairs == ProcessMetricsEncoder(o)
        keys  == {pairs[i][1] : i \in 1..Len(pairs)}
        last(k) == CHOOSE i \in 1..Len(pairs) :
                      /\ pairs[i][1] = k
                      /\ \A j \in 1..Len(pairs) : pairs[j][1] = k => j <= i
    IN  [k \in keys |-> pairs[last(k)][2]]

\* ------------------------------------------------------------- MetricsLogger
\* what LogsIngestionClient.upload can do with one call
UploadOutcomes == {"SUCCESS", "PARTIAL_FAILURE", "HttpResponseError", "Exception"}

\* the UploadLogsResult of an upload that returns
UploadLogsResult(outcome, logs) ==
    [ status |-> outcome,
      failed_logs |-> IF outcome = "SUCCESS" THEN <<>> ELSE logs ]

NoResult == [status |-> "", failed_logs |-> <<>>]
UploadError == <<"upload failed">>

\* a setup_metrics that computes execution_id only on the first call
setup_metrics_keeps_execution_id(m, process_name, t) ==
    LET start_time == isoformat(t)
    IN  [m EXCEPT !.process_name = process_name,
                  !.execution_id = IF @ = None
                                   THEN process_name \o <<"@">> \o start_time
                                   ELSE @,
                  !.start_time = start_time]

\* a setup_metrics that does nothing on a record already set up
setup_metrics_first_call_wins(m, process_name, t) ==
    LET start_time == isoformat(t)
    IN  IF m.start_time # None THEN m
        ELSE [m EXCEPT !.process_name = process_name,
                       !.execution_id = process_name \o <<"@">> \o start_time,
                       !.start_time = start_time]

\* setup_metrics(): start_time = datetime.utcnow().isoformat(); process_name,
\* execution_id = f"{process_name}@{start_time}" and start_time are assigned
setup_metrics(m, process_name, t) ==
    LET start_time == isoformat(t)
    IN  [m EXCEPT !.process_name = process_name,
                  !.execution_id = process_name \o <<"@">> \o start_time,
                  !.start_time = start_time]

\* a complete_metrics that empties error_message
complete_metrics_clears_errors(m, status, mlflow_url, t) ==
    [m EXCEPT !.status = status,
              !.mlflow_url = mlflow_url,
              !.end_time = isoformat(t),
              !.error_message = <<>>]

\* complete_metrics(): status, mlflow_url and end_time are assigned
complete_metrics(m, status, mlflow_url, t) ==
    [m EXCEPT !.status = status,
              !.mlflow_url = mlflow_url,
              !.end_time = isoformat(t)]

\* the error of the ingestion service, and any other error of the upload
HttpResponseError == <<"HttpResponseError">>

\* self.log_client.upload(...): the UploadLogsResult it returns (NoResult
\* when it raises) and the error it raises (None when it returns)
log_client_upload(outcome, logs) ==
    [ result |-> IF outcome \in {"SUCCESS", "PARTIAL_FAILURE"}
                 THEN UploadLogsResult(outcome, logs) ELSE NoResult,
      error  |-> CASE outcome = "HttpResponseError" -> HttpResponseError
                   [] outcome = "Exception" -> UploadError
                   [] OTHER -> None ]

\* a log() that stamps nothing
log_stamp_nothing(m, t) == m

\* log(): self.metrics.time_generated = datetime.utcnow().isoformat()
log_stamp(m, t) == [m EXCEPT !.time_generated = isoformat(t)]

\* a log() that hands back only a SUCCESS result
log_response_success_only(result) ==
    IF result.status = "SUCCESS" THEN result ELSE NoResult

\* log(): return response
log_response(result) == result

\* a log() whose handlers re-raise every error
log_raises_every_error(error) == error

\* a log() whose handlers swallow every error
log_raises_no_error(error) == None

\* log(): except HttpResponseError logs and falls through (log() returns
\* None); except Exception logs and re-raises the error it caught
log_raises(error) == IF error = HttpResponseError THEN None ELSE error

\* log(): the record after the call, the upload call made, what the client
\* gave (result, error), what is returned ("response" or "None", and the
\* response), the exception raised (None when it returns) and the level of
\* the line written to the logging module
log(m, t, outcome) ==
    LET stamped == log_stamp(m, t)
        metrics_logs == <<json_roundtrip(stamped)>>
        up == log_client_upload(outcome, metrics_logs)
    IN  [ metrics  |-> stamped,
          upload   |-> [rule_id |-> rule_id, stream_name |-> stream_name,
                        logs |-> metrics_logs],
          result   |-> up.result,
          error    |-> up.error,
          returned |-> IF up.error = None THEN "response" ELSE "None",
          response |-> IF up.error = None THEN log_response(up.result) ELSE NoResult,
          raised   |-> log_raises(up.error),
          logged   |-> CASE outcome = "SUCCESS" -> "info"
                         [] outcome = "PARTIAL_FAILURE" -> "warn"
                         [] OTHER -> "error" ]

\* a log_error() that leaves the status as it is
log_error_keeps_status(m, error, t, outcome) ==
    log([m EXCEPT !.error_message = Append(@, error)], t, outcome)

\* a log_error() that keeps only the last error
log_error_overwrites(m, error, t, outcome) ==
    log([m EXCEPT !.error_message = <<error>>,
                  !.status = <<"FAILURE">>], t, outcome)

\* log_error(): error_message.append(f"{error}") (a str formats as itself),
\* status = "FAILURE", return self.log()
log_error(m, error, t, outcome) ==
    log([m EXCEPT !.error_message = Append(@, error),
                  !.status = <<"FAILURE">>], t, outcome)

\* ------------------------------------------------------------------- state
VARIABLES
    app,        \* the environment variable "app" (None when unset)
    now,        \* the clock datetime.utcnow() reads
    metrics,    \* metrics[r]: the ProcessMetrics of MetricsLogger r
    uploads,    \* uploads[r]: upload calls received by r's log_client
    lastCall,   \* the MetricsLogger call the last step made, and what it gave back
    lock,       \* holder of the shared threading.Lock, 0 when it is free
    pc,         \* pc[t]: where thread t is in its with-statement
    blk,        \* blk[t]: the ContextLogger of thread t's with-statement
    exc,        \* exc[t]: the exception the guarded body raised, or None
    trace,      \* trace[t]: calls __enter__/__exit__ made, in order
    finished,   \* the with-statement the last step ended, and how it ended
    blocks,     \* with-statements started so far
    ncalls      \* direct method calls made so far

vars == <<app, now, metrics, uploads, lastCall, lock, pc, blk, exc,
          trace, finished, blocks, ncalls>>

threadVars == <<lock, pc, blk, exc, trace, finished, blocks>>

Url == <<"azureml://jobs/1">>
MlflowUrls == {None, Url}
url_of(t) == IF t % 2 = 1 THEN Url ELSE None
Boom == <<"boom">>
BodyOutcomes == {None, Boom}
name_of(t) == <<"task-", Digits[t + 1]>>

NoCall == [op |-> "", logger |-> 0, args |-> <<>>, returned |-> "",
           response |-> NoResult, raised |-> None, logged |-> "",
           result |-> NoResult, error |-> None,
           upload |-> [rule_id |-> None, stream_name |-> None, logs |-> <<>>]]

NoBlock == [logger |-> 0, origin |-> 0, process_name |-> None,
            mlflow_url |-> None, suppress |-> FALSE, lock |-> FALSE]

\* no with-statement ended in the last step
NoExit == [thread |-> 0, blk |-> NoBlock, exc |-> None, trace |-> <<>>,
           escaped |-> None, raised |-> None]

\* the record of a method call that uploads nothing and returns None
Call(op, r, args) == [NoCall EXCEPT !.op = op, !.logger = r, !.args = args,
                                    !.returned = "None"]

\* the record of a log()/log_error() call, from what log() gave
LogCall(op, r, args, res) ==
    [op |-> op, logger |-> r, args |-> args, returned |-> res.returned,
     response |-> res.response, raised |-> res.raised, logged |-> res.logged,
     result |-> res.result, error |-> res.error, upload |-> res.upload]

\* MetricsLogger.__init__ and the module-level config: every logger starts
\* with a blank ProcessMetrics; reporter 1 exists, no with-statement runs.
Init ==
    /\ app \in AppValues
    /\ now = 0
    /\ metrics = [r \in Reporters |-> ProcessMetrics(app)]
    /\ uploads = [r \in Reporters |-> 0]
    /\ lastCall = NoCall
    /\ lock = 0
    /\ pc = [t \in Threads |-> "idle"]
    /\ blk = [t \in Threads |-> NoBlock]
    /\ exc = [t \in Threads |-> None]
    /\ trace = [t \in Threads |-> <<>>]
    /\ finished = NoExit
    /\ blocks = 0
    /\ ncalls = 0

\* time passes
Tick ==
    /\ now < MaxClock
    /\ now' = now + 1
    /\ lastCall' = NoCall
    /\ finished' = NoExit
    /\ UNCHANGED <<app, metrics, uploads, lock, pc, blk, exc, trace, blocks, ncalls>>

\* ------------------------------------------------- direct calls on logger 1
CallSetup(process_name) ==
    /\ ncalls < MaxCalls
    /\ metrics' = [metrics EXCEPT ![1] = setup_metrics(@, process_name, now)]
    /\ lastCall' = Call("setup_metrics", 1, <<process_name>>)
    /\ ncalls' = ncalls + 1
    /\ UNCHANGED <<app, now, uploads, threadVars>>

CallComplete(status, mlflow_url) ==
    /\ ncalls < MaxCalls
    /\ metrics' = [metrics EXCEPT ![1] = complete_metrics(@, status, mlflow_url, now)]
    /\ lastCall' = Call("complete_metrics", 1, <<status, mlflow_url>>)
    /\ ncalls' = ncalls + 1
    /\ UNCHANGED <<app, now, uploads, threadVars>>

CallLog(outcome) ==
    /\ ncalls < MaxCalls
    /\ LET res == log(metrics[1], now, outcome)
       IN  /\ metrics' = [metrics EXCEPT ![1] = res.metrics]
           /\ lastCall' = LogCall("log", 1, <<>>, res)
    /\ uploads' = [uploads EXCEPT ![1] = @ + 1]
    /\ ncalls' = ncalls + 1
    /\ UNCHANGED <<app, now, threadVars>>

CallLogError(error, outcome) ==
    /\ ncalls < MaxCalls
    /\ Len(metrics[1].error_message) < MaxErrors
    /\ LET res == log_error(metrics[1], error, now, outcome)
       IN  /\ metrics' = [metrics EXCEPT ![1] = res.metrics]
           /\ lastCall' = LogCall("log_error", 1, <<error>>, res)
    /\ uploads' = [uploads EXCEPT ![1] = @ + 1]
    /\ ncalls' = ncalls + 1
    /\ UNCHANGED <<app, now, threadVars>>

NextCalls ==
    \/ Tick
    \/ \E t \in Threads : CallSetup(name_of(t))
    \/ \E st \in CompleteStatuses, u \in MlflowUrls : CallComplete(st, u)
    \/ \E o \in UploadOutcomes : CallLog(o)
    \/ \E e \in {Boom}, o \in UploadOutcomes : CallLogError(e, o)

SpecCalls == Init /\ [][NextCalls]_vars

\* ------------------------------------------------------------ ContextLogger
dataVars == <<app, ncalls>>

\* a thread may open a with-statement when it is in none
CanStart(t) ==
    /\ pc[t] = "idle"
    /\ blocks < MaxBlocks

StartBlock(t, b) ==
    /\ blk' = [blk EXCEPT ![t] = b]
    /\ pc' = [pc EXCEPT ![t] = "enter"]
    /\ finished' = NoExit
    /\ blocks' = blocks + 1
    /\ UNCHANGED <<exc, trace>>

\* the logger a ContextLogger built by MetricsLogger.context reports on: the
\* staticmethod passes no instance, and ContextLogger.__init__ of
\* process_metrics builds a MetricsLogger of its own
context_logger(r, fresh) == fresh

\* utils.context_manager.ContextLogger(metrics_logger, process_name, ...)
NewContextLogger(t, r, mlflow_url, suppress, lk) ==
    /\ CanStart(t)
    /\ StartBlock(t, [logger |-> r, origin |-> 0, process_name |-> name_of(t),
                      mlflow_url |-> mlflow_url, suppress |-> suppress,
                      lock |-> lk])
    /\ lastCall' = NoCall
    /\ UNCHANGED <<app, now, metrics, uploads, lock, ncalls>>

\* r.context(process_name, ...): process_metrics.ContextLogger(process_name, ...)
Context(t, r, mlflow_url, suppress, lk) ==
    /\ CanStart(t)
    /\ metrics' = [metrics EXCEPT ![own_logger(t)] = ProcessMetrics(app)]
    /\ uploads' = [uploads EXCEPT ![own_logger(t)] = 0]
    /\ StartBlock(t, [logger |-> context_logger(r, own_logger(t)), origin |-> r,
                      process_name |-> name_of(t), mlflow_url |-> mlflow_url,
                      suppress |-> suppress, lock |-> lk])
    /\ lastCall' = Call("__init__", own_logger(t), <<>>)
    /\ UNCHANGED <<app, now, lock, ncalls>>

\* an acquire that does not wait for the lock
lock_free_nonblocking(l) == TRUE

\* threading.Lock.acquire(blocking=True) returns only once the lock is free
lock_free(l) == l = 0

\* __enter__: if self.__lock: self.__lock.acquire(blocking=True);
\* self.logger.setup_metrics(self.process_name); return self.logger
Enter(t) ==
    /\ pc[t] = "enter"
    /\ blk[t].lock => lock_free(lock)
    /\ lock' = IF blk[t].lock THEN t ELSE lock
    /\ LET r == blk[t].logger
       IN  /\ metrics' = [metrics EXCEPT ![r] = setup_metrics(@, blk[t].process_name, now)]
           /\ lastCall' = Call("setup_metrics", r, <<blk[t].process_name>>)
    /\ trace' = [trace EXCEPT ![t] =
                    (IF blk[t].lock THEN <<[call |-> "acquire", args |-> <<>>]>> ELSE <<>>)
                    \o <<[call |-> "setup_metrics", args |-> <<blk[t].process_name>>]>>]
    /\ pc' = [pc EXCEPT ![t] = "body"]
    /\ finished' = NoExit
    /\ UNCHANGED <<dataVars, now, uploads, blk, exc, blocks>>

\* the guarded body returns (None) or raises
Body(t, outcome) ==
    /\ pc[t] = "body"
    /\ exc' = [exc EXCEPT ![t] = outcome]
    /\ pc' = [pc EXCEPT ![t] = "exit"]
    /\ lastCall' = NoCall
    /\ finished' = NoExit
    /\ UNCHANGED <<dataVars, now, metrics, uploads, lock, blk, trace, blocks>>

\* __exit__: status = "FAILURE" if any([exc_type, exc_info, traceback])
exit_status(e) == IF e # None THEN <<"FAILURE">> ELSE <<"SUCCESS">>

\* an __exit__ that reports every outcome with log()
report_call_always_log(e) == "log"

\* __exit__: which reporting call follows complete_metrics
report_call(e) == IF e # None THEN "log_error" ELSE "log"

\* __exit__: whether the statements after the reporting call run; an
\* exception of log()/log_error() leaves __exit__ at once
runs_release(raised) == raised = None

\* an __exit__ that returns True whatever suppress is
with_result_swallow(e, exit_raised, exit_value) ==
    IF exit_raised # None THEN exit_raised ELSE None

\* an __exit__ that returns False whatever suppress is
with_result_reraise(e, exit_raised, exit_value) ==
    IF exit_raised # None THEN exit_raised ELSE e

\* the with-statement: an exception of __exit__ leaves it; otherwise the
\* body's exception does, unless __exit__ returned a true value
with_result(e, exit_raised, exit_value) ==
    IF exit_raised # None THEN exit_raised
    ELSE IF e # None /\ ~exit_value THEN e ELSE None

\* __exit__: complete_metrics(status, mlflow_url); log_error(exc_info) or
\* log(); if self.__lock: self.__lock.release(); return self.suppress
Exit(t, outcome) ==
    /\ pc[t] = "exit"
    /\ LET r == blk[t].logger
           cargs == <<exit_status(exc[t]), blk[t].mlflow_url>>
           completed == complete_metrics(metrics[r], cargs[1], cargs[2], now)
           op == report_call(exc[t])
           args == IF op = "log_error" THEN <<exc[t]>> ELSE <<>>
           res == IF op = "log_error"
                  THEN log_error(completed, exc[t], now, outcome)
                  ELSE log(completed, now, outcome)
           released == blk[t].lock /\ runs_release(res.raised)
       IN  /\ metrics' = [metrics EXCEPT ![r] = res.metrics]
           /\ uploads' = [uploads EXCEPT ![r] = @ + 1]
           /\ lastCall' = LogCall(op, r, args, res)
           /\ lock' = IF released THEN 0 ELSE lock
           /\ finished' =
                [thread  |-> t,
                 blk     |-> blk[t],
                 exc     |-> exc[t],
                 trace   |-> trace[t]
                             \o <<[call |-> "complete_metrics", args |-> cargs],
                                  [call |-> op, args |-> args]>>
                             \o (IF released
                                 THEN <<[call |-> "release", args |-> <<>>]>>
                                 ELSE <<>>),
                 escaped |-> with_result(exc[t], res.raised, blk[t].suppress),
                 raised  |-> res.raised]
    /\ pc' = [pc EXCEPT ![t] = "idle"]
    /\ blk' = [blk EXCEPT ![t] = NoBlock]
    /\ exc' = [exc EXCEPT ![t] = None]
    /\ trace' = [trace EXCEPT ![t] = <<>>]
    /\ UNCHANGED <<dataVars, now, blocks>>

Next ==
    \/ \E t \in Threads, s \in BOOLEAN, l \in BOOLEAN :
          NewContextLogger(t, Shared, url_of(t), s, l)
    \/ \E t \in Threads : Enter(t)
    \/ \E t \in Threads, o \in BodyOutcomes : Body(t, o)
    \/ \E t \in Threads, o \in UploadOutcomes : Exit(t, o)

\* threads running with-statements of utils.context_manager.ContextLogger on
\* the shared MetricsLogger, within one reading of the clock
Spec == Init /\ [][Next]_vars

NextContext ==
    \/ \E t \in Threads, s \in BOOLEAN, l \in BOOLEAN :
          Context(t, Shared, url_of(t), s, l)
    \/ \E t \in Threads : Enter(t)
    \/ \E t \in Threads, o \in BodyOutcomes : Body(t, o)
    \/ \E t \in Threads, o \in UploadOutcomes : Exit(t, o)

\* threads running with-statements obtained from MetricsLogger.context
SpecContext == Init /\ [][NextContext]_vars

NextLocked ==
    \/ Tick
    \/ \E t \in Threads, s \in BOOLEAN :
          NewContextLogger(t, Shared, url_of(t), s, TRUE)
    \/ \E t \in Threads : Enter(t)
    \/ \E t \in Threads, o \in BodyOutcomes : Body(t, o)
    \/ \E t \in Threads, o \in UploadOutcomes : Exit(t, o)

\* threads running with-statements that all share the MetricsLogger and the
\* lock, while time passes
SpecLocked == Init /\ [][NextLocked]_vars

\* fair scheduling: every guarded body finishes, an __exit__ that was entered
\* runs to its end, and a thread blocked in acquire() gets the lock if it is
\* free again and again
Fairness ==
    \A t \in Threads :
        /\ SF_vars(Enter(t))
        /\ WF_vars(\E o \in BodyOutcomes : Body(t, o))
        /\ WF_vars(\E o \in UploadOutcomes : Exit(t, o))

SpecLockedFair == SpecLocked /\ Fairness

\* ================================================================== claims
Count(tr, c) == Cardinality({i \in 1..Len(tr) : tr[i].call = c})
Ended == finished.thread # 0
Inside(t) == pc[t] \in {"body", "exit"}
Terminal == {<<"SUCCESS">>, <<"FAILURE">>}
StatusKey == PascalKeys[5]

\* C1: a with-statement built with a lock has released the lock when it has
\* ended, on every path: body returned, body raised, and log()/log_error()
\* raised during __exit__ (so a reporting failure reaches the caller only
\* with the lock released).
C1_LockReleasedOnEveryExit ==
    (Ended /\ finished.blk.lock) => lock # finished.thread

\* C2: of the threads whose with-statements use the lock, at most one is
\* between its entry (lock acquired, setup done) and its exit, and that one
\* holds the lock.
C2_MutualExclusion ==
    /\ \A t1, t2 \in Threads :
          (t1 # t2 /\ blk[t1].lock /\ blk[t2].lock) => ~(Inside(t1) /\ Inside(t2))
    /\ \A t \in Threads : (blk[t].lock /\ Inside(t)) => lock = t

\* C2 witness: one locked block is inside while another locked block waits
\* at its entry.
C2_Witness ==
    \E t1, t2 \in Threads :
        /\ t1 # t2
        /\ blk[t1].lock /\ Inside(t1)
        /\ blk[t2].lock /\ pc[t2] = "enter"

\* C3: a with-statement with a lock that has ended called acquire first, then
\* setup, and release last, after log/log_error, each of acquire and release
\* exactly once, whether the body returned or raised.
C3_AcquireReleaseOnce ==
    (Ended /\ finished.blk.lock) =>
        LET tr == finished.trace
        IN  /\ Count(tr, "acquire") = 1
            /\ Count(tr, "release") = 1
            /\ tr[1].call = "acquire"
            /\ tr[2].call = "setup_metrics"
            /\ tr[Len(tr)].call = "release"
            /\ tr[Len(tr) - 1].call \in {"log", "log_error"}

\* C4: every __exit__ calls complete_metrics once, with SUCCESS when the body
\* raised nothing and FAILURE otherwise and with the block's mlflow_url, and
\* next makes exactly one reporting call: log_error(error) and no direct
\* log() when the body raised, log() and no log_error otherwise.
C4_CompleteThenOneReport ==
    Ended =>
        LET tr == finished.trace
            e  == finished.exc
            i  == CHOOSE j \in 1..Len(tr) : tr[j].call = "complete_metrics"
        IN  /\ Count(tr, "complete_metrics") = 1
            /\ tr[i].args = << (IF e = None THEN <<"SUCCESS">> ELSE <<"FAILURE">>),
                               finished.blk.mlflow_url >>
            /\ i < Len(tr)
            /\ Count(tr, "log") + Count(tr, "log_error") = 1
            /\ IF e = None
               THEN tr[i + 1] = [call |-> "log", args |-> <<>>]
               ELSE tr[i + 1] = [call |-> "log_error", args |-> <<e>>]
            /\ lastCall.op = tr[i + 1].call
            /\ lastCall.logger = finished.blk.logger

\* C4 witness: a with-statement whose body raised has ended.
C4_Witness == Ended /\ finished.exc # None /\ lastCall.op = "log_error"

C6_NoExceptionEscapes ==
    (Ended /\ finished.exc # None /\ finished.blk.suppress) =>
        /\ finished.escaped = None
        /\ Count(finished.trace, "log_error") = 1

\* C6 amended: when the body raised and suppress is true, log_error was
\* called exactly once and uploaded the record with status FAILURE; no
\* exception leaves the with-statement when log_error returned, and the
\* exception of log_error leaves it when log_error raised.
C6_SuppressedUnlessReportRaises ==
    (Ended /\ finished.exc # None /\ finished.blk.suppress) =>
        /\ Count(finished.trace, "log_error") = 1
        /\ lastCall.op = "log_error"
        /\ lastCall.upload.logs[1][StatusKey] = <<"FAILURE">>
        /\ finished.escaped = finished.raised

\* C6 witness: the body raised, suppress is true, log_error returned and no
\* exception left the with-statement.
C6_Witness ==
    /\ Ended /\ finished.exc = Boom /\ finished.blk.suppress
    /\ finished.raised = None /\ finished.escaped = None

\* C7: the with-statement got from r.context(...) yields r itself, and its
\* setup, complete and log/log_error are done on r: once it has ended, r's
\* log has uploaded.
C7_ContextYieldsSameInstance ==
    /\ \A t \in Threads : blk[t].origin # 0 => blk[t].logger = blk[t].origin
    /\ (Ended /\ finished.blk.origin # 0) =>
          /\ finished.blk.logger = finished.blk.origin
          /\ uploads[finished.blk.origin] > 0

\* C8: the status of a record never changes once it is SUCCESS or FAILURE
\* (no return to IN PROGRESS, no change from one terminal value to the
\* other), whatever calls follow, reuse for another with-statement included.
C8_StatusNeverLeavesTerminal ==
    [][\A r \in Reporters :
          metrics[r].status \in Terminal => metrics'[r].status = metrics[r].status]_vars

\* C9: in every reachable state error_message is non-empty only when status
\* is FAILURE.
C9_ErrorsOnlyWhenFailure ==
    \A r \in Reporters :
        metrics[r].error_message # <<>> => metrics[r].status = <<"FAILURE">>

\* the keys of the wire schema
WireKeys ==
    << <<"T","i","m","e","G","e","n","e","r","a","t","e","d">>,
       <<"P","r","o","c","e","s","s","N","a","m","e">>,
       <<"E","x","e","c","u","t","i","o","n","I","d">>,
       <<"E","n","v","i","r","o","n","m","e","n","t">>,
       <<"S","t","a","t","u","s">>,
       <<"S","t","a","r","t","T","i","m","e">>,
       <<"E","n","d","T","i","m","e">>,
       <<"E","r","r","o","r","M","e","s","s","a","g","e">>,
       <<"M","l","f","l","o","w","U","r","l">>,
       <<"E","x","e","c","u","t","i","o","n","D","e","t","a","i","l","s">> >>

\* C10: a MetricsLogger on which nothing was called yet holds a record with
\* status IN PROGRESS, environment DEV when "app" is unset, every other field
\* null or empty, and its encoding is exactly the wire record of defaults.
C10_FreshRecord ==
    (ncalls = 0 /\ app = None) =>
        /\ metrics[Shared].status = <<"IN PROGRESS">>
        /\ metrics[Shared].environment = <<"DEV">>
        /\ json_roundtrip(metrics[Shared]) =
             [k \in {WireKeys[i] : i \in 1..Len(WireKeys)} |->
                CASE k = WireKeys[4] -> <<"DEV">>
                  [] k = WireKeys[5] -> <<"IN PROGRESS">>
                  [] k \in {WireKeys[8], WireKeys[10]} -> <<>>
                  [] OTHER -> None]

\* the last step was a log() or a log_error() call
Reported == lastCall.op \in {"log", "log_error"}
IsPrefix(a, b) == Len(a) <= Len(b) /\ \A i \in 1..Len(a) : a[i] = b[i]

\* the wire record of m: each key of the wire schema with the value of the
\* field it names
WireRecord(m) ==
    [k \in {WireKeys[i] : i \in 1..Len(WireKeys)} |->
        CASE k = WireKeys[1] -> m.time_generated
          [] k = WireKeys[2] -> m.process_name
          [] k = WireKeys[3] -> m.execution_id
          [] k = WireKeys[4] -> m.environment
          [] k = WireKeys[5] -> m.status
          [] k = WireKeys[6] -> m.start_time
          [] k = WireKeys[7] -> m.end_time
          [] k = WireKeys[8] -> m.error_message
          [] k = WireKeys[9] -> m.mlflow_url
          [] OTHER -> m.execution_details]

\* C11: log_error(error), whatever the record held before (setup or complete
\* called or not, any status), appends error as the last entry of
\* error_message, leaves status FAILURE, makes the upload log() makes of that
\* record and gives back what log() gives back.
C11_LogErrorAppendsAndReports ==
    [][lastCall'.op = "log_error" =>
          LET r  == lastCall'.logger
              e  == lastCall'.args[1]
              m2 == metrics'[r]
          IN  /\ m2.error_message = Append(metrics[r].error_message, e)
              /\ m2.status = <<"FAILURE">>
              /\ uploads'[r] = uploads[r] + 1
              /\ \E o \in UploadOutcomes :
                    LET l == log(m2, now, o)
                    IN  /\ l.metrics = m2
                        /\ lastCall' = LogCall("log_error", r, <<e>>, l)]_vars

\* C11 witness: log_error was called on a record that complete had filled
\* and setup had not.
C11_Witness ==
    /\ lastCall.op = "log_error"
    /\ metrics[Shared].start_time = None
    /\ metrics[Shared].end_time # None
    /\ metrics[Shared].error_message = <<Boom>>
    /\ metrics[Shared].status = <<"FAILURE">>

\* C12: when the client's upload returned a result, SUCCESS or partial
\* failure, log() returns that very result and raises nothing.
C12_LogReturnsUploadResult ==
    (Reported /\ lastCall.error = None) =>
        /\ lastCall.returned = "response"
        /\ lastCall.response = lastCall.result
        /\ lastCall.raised = None

\* C12 witness: log() returned a partial-failure result with failed logs.
C12_Witness ==
    /\ lastCall.op = "log"
    /\ lastCall.response.status = "PARTIAL_FAILURE"
    /\ lastCall.response.failed_logs # <<>>
    /\ lastCall.raised = None

\* C13: when the upload ends with an HttpResponseError, log() returns without
\* raising, and a with-statement whose body returned then ends without an
\* exception.
C13_ServiceErrorSwallowed ==
    (Reported /\ lastCall.error = HttpResponseError) =>
        /\ lastCall.raised = None
        /\ lastCall.returned = "None"
        /\ (Ended /\ finished.exc = None) => finished.escaped = None

\* C13 witness: the body returned, the upload of __exit__ ended with an
\* HttpResponseError, and nothing left the with-statement.
C13_Witness ==
    /\ Ended /\ finished.exc = None
    /\ lastCall.op = "log" /\ lastCall.error = HttpResponseError
    /\ finished.escaped = None

\* C14: when the upload raises an error that is not an HttpResponseError,
\* log() raises that same error (no swallowing, no None returned), and so
\* does log_error().
C14_UnexpectedErrorReraised ==
    (Reported /\ lastCall.error \notin {None, HttpResponseError}) =>
        /\ lastCall.raised = lastCall.error
        /\ lastCall.response = NoResult

\* C14 witness: log_error() let the error of the upload through.
C14_Witness ==
    /\ lastCall.op = "log_error"
    /\ lastCall.error = UploadError
    /\ lastCall.raised = UploadError

\* C15: in every reachable state execution_id is set exactly when start_time
\* is, and then it is process_name, "@" and start_time of the record.
C15_ExecutionIdFromStart ==
    \A r \in Reporters :
        LET m == metrics[r]
        IN  /\ (m.execution_id # None) <=> (m.start_time # None)
            /\ m.start_time # None =>
                  m.execution_id = m.process_name \o <<"@">> \o m.start_time

\* C15 witness: a record set up twice, at two readings of the clock, and
\* reported since.
C15_Witness ==
    /\ metrics[Shared].start_time = isoformat(1)
    /\ metrics[Shared].execution_id # None
    /\ ncalls >= 3
    /\ metrics[Shared].status = None
    /\ Reported

\* C16: every log() stamps time_generated and makes exactly one upload call,
\* with the rule_id and stream_name of the configuration and a list of one
\* mapping: the encoding of the record as stamped.
C16_LogUploadsStampedRecord ==
    [][lastCall'.op \in {"log", "log_error"} =>
          LET r == lastCall'.logger
          IN  /\ metrics'[r].time_generated = isoformat(now)
              /\ uploads'[r] = uploads[r] + 1
              /\ lastCall'.upload.rule_id = rule_id
              /\ lastCall'.upload.stream_name = stream_name
              /\ lastCall'.upload.logs = <<WireRecord(metrics'[r])>>]_vars

\* C16 witness: a second log(), at a later reading of the clock.
C16_Witness ==
    /\ lastCall.op = "log"
    /\ uploads[Shared] = 2
    /\ metrics[Shared].time_generated = isoformat(1)
    /\ metrics[Shared].start_time = isoformat(0)

\* C17: complete(status, mlflow_url) leaves status and mlflow_url equal to
\* its arguments and end_time set, uploads nothing, and leaves process_name,
\* execution_id, start_time, time_generated and error_message as they were.
C17_CompleteFrame ==
    [][lastCall'.op = "complete_metrics" =>
          LET r  == lastCall'.logger
              m  == metrics[r]
              m2 == metrics'[r]
          IN  /\ m2.status = lastCall'.args[1]
              /\ m2.mlflow_url = lastCall'.args[2]
              /\ m2.end_time = isoformat(now) /\ m2.end_time # None
              /\ uploads' = uploads
              /\ lastCall'.upload = NoCall.upload
              /\ m2.process_name = m.process_name
              /\ m2.execution_id = m.execution_id
              /\ m2.start_time = m.start_time
              /\ m2.time_generated = m.time_generated
              /\ m2.error_message = m.error_message]_vars

\* C17 witness: complete was called on a record that was set up, reported
\* and held an error.
C17_Witness ==
    /\ lastCall.op = "complete_metrics"
    /\ metrics[Shared].error_message # <<>>
    /\ metrics[Shared].start_time # None
    /\ metrics[Shared].time_generated # None

\* C18: setup may be called again and again without an error; after each
\* call process_name, start_time and execution_id are those of that call, and
\* status, end_time, mlflow_url, error_message and time_generated are as they
\* were; setup uploads nothing.
C18_SetupLastCallWins ==
    [][lastCall'.op = "setup_metrics" =>
          LET r  == lastCall'.logger
              m  == metrics[r]
              m2 == metrics'[r]
              name == lastCall'.args[1]
          IN  /\ lastCall'.raised = None
              /\ m2.process_name = name
              /\ m2.start_time = isoformat(now)
              /\ m2.execution_id = name \o <<"@">> \o isoformat(now)
              /\ uploads' = uploads
              /\ lastCall'.upload = NoCall.upload
              /\ m2.status = m.status
              /\ m2.end_time = m.end_time
              /\ m2.mlflow_url = m.mlflow_url
              /\ m2.error_message = m.error_message
              /\ m2.time_generated = m.time_generated]_vars

\* C18 witness: nothing but setup was called, at least twice, the last time
\* at a later reading of the clock.
C18_Witness ==
    /\ lastCall.op = "setup_metrics"
    /\ ncalls >= 2
    /\ metrics[Shared].status = None
    /\ metrics[Shared].time_generated = None
    /\ metrics[Shared].start_time = isoformat(1)

\* C19: the encoding of every reachable record is a mapping with exactly the
\* ten keys of the wire schema, each the field's name split at "_", every
\* word capitalized, joined, and each value the field's value as it is.
C19_EncodingIsWireRecord ==
    \A r \in Reporters :
        LET enc == ProcessMetricsEncoder(metrics[r])
        IN  /\ Len(enc) = Len(WireKeys)
            /\ \A i \in 1..Len(enc) : enc[i][1] = WireKeys[i]
            /\ \A i \in 1..Len(enc) : enc[i][2] = WireRecord(metrics[r])[WireKeys[i]]
            /\ json_roundtrip(metrics[r]) = WireRecord(metrics[r])

\* C19 witness: a record with every lifecycle field set and two errors.
C19_Witness ==
    /\ metrics[Shared].time_generated # None
    /\ metrics[Shared].start_time # None
    /\ metrics[Shared].end_time # None
    /\ metrics[Shared].mlflow_url # None
    /\ Len(metrics[Shared].error_message) = 2

\* C20: error_message is append-only: over every step its value before is a
\* prefix of its value after, only log_error makes it longer, and every
\* log_error by exactly one entry.
C20_ErrorsAppendOnly ==
    [][\A r \in Reporters :
          LET a == metrics[r].error_message
              b == metrics'[r].error_message
          IN  /\ IsPrefix(a, b)
              /\ b # a => (lastCall'.op = "log_error" /\ lastCall'.logger = r)
              /\ (lastCall'.op = "log_error" /\ lastCall'.logger = r) =>
                    b = Append(a, lastCall'.args[1])]_vars

\* C20 witness: a second log_error on a record completed in between.
C20_Witness ==
    /\ lastCall.op = "log_error"
    /\ Len(metrics[Shared].error_message) = 2
    /\ metrics[Shared].end_time # None

\* C21: with every with-statement on the shared MetricsLogger under the one
\* lock, the record a block uploads at its exit carries the block's own
\* process_name, the execution_id and start_time its own setup set, an
\* end_time, the status of its own outcome (SUCCESS when the body returned,
\* FAILURE when it raised) and its own mlflow_url: setup writes them at the
\* block's entry, no step changes them while the block is inside, and the
\* upload at its exit holds them.
C21_UploadCarriesOwnBlock ==
    [][\A t \in Threads :
          LET r == blk[t].logger
              name == blk[t].process_name
          IN  /\ (pc[t] = "enter" /\ pc'[t] = "body") =>
                    /\ metrics'[r].process_name = name
                    /\ metrics'[r].start_time = isoformat(now)
                    /\ metrics'[r].execution_id = name \o <<"@">> \o isoformat(now)
              /\ (Inside(t) /\ pc'[t] \in {"body", "exit"}) =>
                    /\ metrics'[r].process_name = metrics[r].process_name
                    /\ metrics'[r].start_time = metrics[r].start_time
                    /\ metrics'[r].execution_id = metrics[r].execution_id
              /\ (pc[t] = "exit" /\ finished'.thread = t) =>
                    /\ Len(lastCall'.upload.logs) = 1
                    /\ LET up == lastCall'.upload.logs[1]
                       IN  /\ up[WireKeys[2]] = name
                           /\ up[WireKeys[3]] = metrics[r].execution_id
                           /\ up[WireKeys[6]] = metrics[r].start_time
                           /\ up[WireKeys[7]] # None
                           /\ up[WireKeys[5]] = (IF exc[t] = None THEN <<"SUCCESS">>
                                                 ELSE <<"FAILURE">>)
                           /\ up[WireKeys[9]] = blk[t].mlflow_url]_vars

\* C21 witness: a block whose body returned uploads SUCCESS, its own name
\* and a later start_time, after a block that failed on the same record, while
\* another thread waits for the lock.
C21_Witness ==
    /\ Ended /\ finished.blk.lock /\ finished.exc = None
    /\ uploads[Shared] = 2
    /\ metrics[Shared].error_message # <<>>
    /\ lastCall.upload.logs[1][WireKeys[5]] = <<"SUCCESS">>
    /\ lastCall.upload.logs[1][WireKeys[2]] = finished.blk.process_name
    /\ lastCall.upload.logs[1][WireKeys[6]] = isoformat(1)

\* C22: under fair scheduling, with every guarded body finishing and whatever
\* the uploads do, every thread waiting at the entry of its with-statement
\* eventually gets the lock and runs its block.
C22_WaitingThreadEnters ==
    \A t \in Threads : (pc[t] = "enter") ~> (pc[t] = "body")

====
